---- MODULE Spec2Model ----
(***************************************************************************)
(* Model of yhj0901/windows_service_module (main.go).                      *)
(*                                                                         *)
(* Part 1: myService.Execute, the callback the service dispatcher runs in  *)
(*   its own goroutine.  It talks to the dispatcher over two unbuffered    *)
(*   channels (r: control requests in, changes: status reports out), to    *)
(*   the monitor over EventChan and to a time.Ticker over ticker.C.        *)
(*   A send on `changes` blocks until the dispatcher takes it, so the      *)
(*   callback is cut into steps at its blocking points.                    *)
(* Part 2: the administrative commands (installService, removeService,     *)
(*   startService, stopService, statusService) against the OS service      *)
(*   registry; every OS call whose error the code receives may fail.       *)
(* Part 3: logMessage and initializeFileLogger: the file, event-log and    *)
(*   console destinations and the log-file handles.                        *)
(***************************************************************************)
EXTENDS Integers, Sequences, FiniteSets, TLC

\* ------------------------------------------------------------------ bounds
\* How many items (ticks, domain events, control requests) become ready in a
\* run that records its history, and how many events the event stream holds.
MaxArrivals == 4
EvCap == 2
\* How many times removeService's wait loop is followed.
MaxPolls == 2
\* How many logMessage calls and how many successful openings of the log file
\* a run of the logging part makes.
MaxLogs == 2
MaxOpens == 2

\* ------------------------------------------------------------ Execute: data
VARIABLES
    pc,          \* position of Execute
    out,         \* `changes`: the status the callback is blocked sending, <<>> if none
    reported,    \* history: statuses the dispatcher has taken from `changes`
    tickC,       \* ticker.C (buffer of one tick)
    evQ,         \* monitorInstance.EventChan()
    ctl,         \* `r`: the control request the dispatcher is blocked sending
    log,         \* history: logMessage calls, in order
    handled,     \* history: items the loop's select has received, in order
    arrived,     \* history: items that became ready on evQ / ctl / tickC
    clock,       \* arrival stamp of the next item
    setupErr,    \* which setup step failed: "none", "dir", "logger", "monitor"
    monitorState,\* monitorInstance: "nil", "created", "started", "stopped"
    monitorStops,\* history: number of monitorInstance.Stop() calls
    tickerOn,    \* ticker created and not yet stopped
    evTurn,      \* parity of the number of domain events logged
    recording,   \* TRUE: histories and stamps are kept and the environment is bounded
    registry,    \* OS service registry: <<>> or <<the registration of the service name>>
    evSource,    \* OS event-log source for the service name exists
    cfg,         \* the loaded ServiceConfig fields installService reads
    mpc,         \* position of the administrative command: "idle", "removePoll", "stopPoll"
    op,          \* history: the latest administrative command, its OS calls and result
    fileLogger,  \* the handle fileLogger writes to, 0 for a nil fileLogger
    logFile,     \* the handle logFile refers to, 0 for nil
    openFiles,   \* the log-file handles that are open
    nextFd,      \* number of log-file handles opened so far
    elog,        \* "nil" or "open"
    isDebug,     \* debug mode: logMessage also prints on the console
    fileOut,     \* lines appended to service.log
    elogOut,     \* entries written to the event log
    console,     \* lines printed on the console by logMessage
    logCalls,    \* history: the (level, message) of each logMessage call
    configFile,  \* service_config.json next to the executable
    config,      \* the package variable config: <<>> before LoadConfig, then <<ServiceConfig>>
    cpc,         \* position of main: "main", "ensured", "loaded", "fatal", "usage", "dispatched"
    handed,      \* history: the command main dispatched and the configuration it ran with
    rpc,         \* position of runService and of the Execute it runs
    paths,       \* config.LogPath, config.DatabasePath, config.CustomDataPath
    monitorInstance, \* the package variable: "nil" or "set"
    loops,       \* iterations of Execute's loop so far
    assigned,    \* history: assignments made to logFile, the path fields, monitorInstance
    lateWrites   \* history: lines printed through fileLogger while its file was closed

execVars == <<pc, out, reported, tickC, evQ, ctl, log, handled, arrived, clock, setupErr, monitorState, monitorStops,
              tickerOn, evTurn, recording>>
mgrVars == <<registry, evSource, cfg, mpc, op>>
sinkVars == <<fileLogger, logFile, openFiles, nextFd, elog, isDebug, fileOut, elogOut, console, logCalls>>
cfgVars == <<configFile, config, cpc, handed>>
runVars == <<rpc, paths, monitorInstance, loops, assigned, lateWrites>>
vars == <<pc, out, reported, tickC, evQ, ctl, log, handled, arrived, clock, setupErr, monitorState, monitorStops,
          tickerOn, evTurn, recording, registry, evSource, cfg, mpc, op,
          fileLogger, logFile, openFiles, nextFd, elog, isDebug, fileOut, elogOut, console, logCalls,
          configFile, config, cpc, handed,
          rpc, paths, monitorInstance, loops, assigned, lateWrites>>

LogInfo == "INFO"
LogError == "ERROR"
LogWarning == "WARNING"

\* svc.Status{State, Accepts}
Status(st, acc) == [State |-> st, Accepts |-> acc]

cmdsAccepted_WithPause == {"Stop", "Shutdown", "PauseAndContinue"}

\* const cmdsAccepted = svc.AcceptStop | svc.AcceptShutdown
cmdsAccepted == {"Stop", "Shutdown"}

\* The four statuses Execute constructs, one per send site.
StartPendingStatus == Status("StartPending", {})
RunningStatus == Status("Running", cmdsAccepted)
StopPendingStatus_Stopped == Status("Stopped", {})
StopPendingStatus == Status("StopPending", {})
StoppedStatus == Status("Stopped", {})

\* svc.Cmd values a ChangeRequest may carry; "Pause" stands for the codes the
\* switch does not name.
Cmds == {"Interrogate", "Stop", "Shutdown", "Pause"}

\* ChangeRequest.CurrentStatus values the dispatcher may hand in.  Execute reads
\* the field only for Interrogate, so the other commands carry one fixed value.
EchoStatuses == {Status("Running", cmdsAccepted), Status("StartPending", {})}
Requests ==
    {[cmd |-> "Interrogate", st |-> s] : s \in EchoStatuses}
    \cup {[cmd |-> c, st |-> Status("Running", cmdsAccepted)] : c \in Cmds \ {"Interrogate"}}

\* monitor events {FileType, Path}
EventSet == {[FileType |-> "exe", Path |-> "C:\\a.exe"],
             [FileType |-> "dll", Path |-> "C:\\b.dll"]}

\* args handed to Execute: the two fixed arguments the service is installed with
ArgLists == {<<"is", "auto-started">>}

NoEvent == [FileType |-> "", Path |-> ""]

\* history bookkeeping: append when the run records its history
Rec(h, s) == IF recording THEN h \o s ELSE h
Stamp == IF recording THEN clock ELSE 0
RecIn(h, s) == IF recording THEN h \cup s ELSE h

LogRec(level, msg, ev) == [level |-> level, msg |-> msg, ev |-> ev]
Item(src, stamp, cmd, st) == [src |-> src, stamp |-> stamp, cmd |-> cmd, st |-> st]

Unblocked_Always == TRUE

\* the callback can run only when it is not blocked in a send on `changes`
Unblocked == out = <<>>

\* changes <- s   (echo marks the Interrogate reply, which is no phase report)
Send(s, echo) == out' = <<[st |-> s, echo |-> echo]>>

InitExec ==
    /\ pc = "entry"
    /\ out = <<>>
    /\ reported = <<>>
    /\ tickC = <<>>
    /\ evQ = <<>>
    /\ ctl = <<>>
    /\ log = <<>>
    /\ handled = <<>>
    /\ arrived = {}
    /\ clock = 1
    /\ setupErr = "none"
    /\ monitorState = "nil"
    /\ monitorStops = 0
    /\ tickerOn = FALSE
    /\ evTurn = 0

\* ------------------------------------------------------- Execute: the callback

\* lines 48-53: log every argument, then changes <- StartPending
Enter ==
    /\ pc = "entry"
    /\ \E args \in ArgLists :
         log' = Rec(log, [i \in 1..Len(args) |-> LogRec(LogInfo, "arg", NoEvent)])
    /\ Send(StartPendingStatus, FALSE)
    /\ pc' = "setup"
    /\ UNCHANGED <<reported, tickC, evQ, ctl, handled, arrived, clock, setupErr, monitorState, monitorStops, tickerOn, evTurn, recording>>
    /\ UNCHANGED mgrVars
    /\ UNCHANGED sinkVars
    /\ UNCHANGED cfgVars
    /\ UNCHANGED runVars

\* lines 56-65, 84-87: a failing setup step is logged and Execute returns
SetupFail(err) ==
    /\ setupErr' = err
    /\ log' = Rec(log,
                  IF err = "dir" THEN <<LogRec(LogError, "dirInitFailed", NoEvent)>>
                  ELSE IF err = "logger" THEN <<LogRec(LogError, "logInitFailed", NoEvent)>>
                  ELSE <<LogRec(LogInfo, "monitorInitialized", NoEvent),
                         LogRec(LogInfo, "dbPath", NoEvent),
                         LogRec(LogError, "monitorStartFailed", NoEvent)>>)
    /\ monitorState' = IF err = "monitor" THEN "created" ELSE monitorState
    /\ pc' = "returned"
    /\ UNCHANGED out

\* lines 56-91 with every step succeeding: changes <- Running
SetupOk(err) ==
    /\ setupErr' = err
    /\ log' = Rec(log, <<LogRec(LogInfo, "monitorInitialized", NoEvent),
                         LogRec(LogInfo, "dbPath", NoEvent),
                         LogRec(LogInfo, "monitorStarted", NoEvent)>>)
    /\ monitorState' = "started"
    /\ Send(RunningStatus, FALSE)
    /\ pc' = "started"

\* the draft variant of Execute that does not look at Start's error
SetupStep_IgnoreStartError(err) ==
    IF err \in {"none", "monitor"} THEN SetupOk(err) ELSE SetupFail(err)

SetupStep(err) ==
    IF err = "none" THEN SetupOk(err) ELSE SetupFail(err)

SetupOutcomes == {"none", "dir", "logger", "monitor"}

Setup ==
    /\ pc = "setup"
    /\ Unblocked
    /\ \E err \in SetupOutcomes : SetupStep(err)
    /\ UNCHANGED <<reported, tickC, evQ, ctl, handled, arrived, clock, monitorStops, tickerOn, evTurn, recording>>
    /\ UNCHANGED mgrVars
    /\ UNCHANGED sinkVars
    /\ UNCHANGED cfgVars
    /\ UNCHANGED runVars

\* lines 92-96: log the start, create the ticker, enter the loop
Started ==
    /\ pc = "started"
    /\ Unblocked
    /\ log' = Rec(log, <<LogRec(LogInfo, "serviceStarted", NoEvent)>>)
    /\ tickerOn' = TRUE
    /\ pc' = "loop"
    /\ UNCHANGED <<out, reported, tickC, evQ, ctl, handled, arrived, clock, setupErr, monitorState, monitorStops, evTurn, recording>>
    /\ UNCHANGED mgrVars
    /\ UNCHANGED sinkVars
    /\ UNCHANGED cfgVars
    /\ UNCHANGED runVars

\* select may run a case when the loop waits and that case's channel is ready
AtSelect == pc = "loop" /\ Unblocked

\* lines 101-103: case <-ticker.C
LoopTick ==
    /\ AtSelect
    /\ tickC # <<>>
    /\ tickC' = <<>>
    /\ handled' = Rec(handled, <<Item("tick", tickC[1], "-", StartPendingStatus)>>)
    /\ log' = Rec(log, <<LogRec(LogInfo, "heartbeat", NoEvent)>>)
    /\ UNCHANGED <<pc, out, reported, evQ, ctl, arrived, clock,
                   setupErr, monitorState, monitorStops, tickerOn, evTurn, recording>>
    /\ UNCHANGED mgrVars
    /\ UNCHANGED sinkVars
    /\ UNCHANGED cfgVars
    /\ UNCHANGED runVars

\* <-EventChan(): the receive takes the oldest event of the stream ...
EventPick_Newest(q) == Len(q)

EventPick(q) == 1

\* ... and leaves the others on it
EventRest_DropsNext(q, i) ==
    IF Len(q) > 1 THEN SubSeq(q, 3, Len(q)) ELSE <<>>

EventRest(q, i) == SubSeq(q, 1, i - 1) \o SubSeq(q, i + 1, Len(q))

EventLogged_PathOnly(e) == [FileType |-> "", Path |-> e.Path]

\* line 107: the record carries event.FileType and event.Path
EventLogged(e) == [FileType |-> e.FileType, Path |-> e.Path]

\* lines 105-107: case event := <-monitorInstance.EventChan()
LoopEvent ==
    /\ AtSelect
    /\ evQ # <<>>
    /\ LET i == EventPick(evQ) IN
         /\ evQ' = EventRest(evQ, i)
         /\ handled' = Rec(handled, <<Item("event", evQ[i].stamp, "-", StartPendingStatus)>>)
         /\ log' = Rec(log, <<LogRec(LogInfo, "fileEvent", EventLogged(evQ[i].ev))>>)
    /\ evTurn' = 1 - evTurn
    /\ UNCHANGED <<pc, out, reported, tickC, ctl, arrived, clock,
                   setupErr, monitorState, monitorStops, tickerOn, recording>>
    /\ UNCHANGED mgrVars
    /\ UNCHANGED sinkVars
    /\ UNCHANGED cfgVars
    /\ UNCHANGED runVars

\* line 111: case svc.Interrogate: changes <- c.CurrentStatus
EchoOf_Running(c) == RunningStatus

EchoOf(c) == c.st

OnInterrogate(c) ==
    /\ Send(EchoOf(c), TRUE)
    /\ UNCHANGED <<pc, log>>

\* lines 112-114, 121: case svc.Stop, svc.Shutdown: log, break loop, changes <- StopPending
OnStop_PlainBreak(c) ==
    /\ log' = Rec(log, <<LogRec(LogInfo, "stopRequested", NoEvent)>>)
    /\ UNCHANGED <<pc, out>>

OnStop(c) ==
    /\ log' = Rec(log, <<LogRec(LogInfo, "stopRequested", NoEvent)>>)
    /\ Send(StopPendingStatus, FALSE)
    /\ pc' = "cleanup"

\* lines 115-116: default: logMessage(LogError, ...)
UnexpectedLevel_Info == LogInfo

UnexpectedLevel == LogError

OnUnexpected(c) ==
    /\ log' = Rec(log, <<LogRec(UnexpectedLevel, "unexpectedControl", NoEvent)>>)
    /\ UNCHANGED <<pc, out>>

\* lines 109-117: switch c.Cmd
ControlSwitch_DefaultBreaks(c) ==
    IF c.cmd = "Interrogate" THEN OnInterrogate(c) ELSE OnStop(c)

ControlSwitch(c) ==
    IF c.cmd = "Interrogate" THEN OnInterrogate(c)
    ELSE IF c.cmd \in {"Stop", "Shutdown"} THEN OnStop(c)
    ELSE OnUnexpected(c)

\* lines 108-118: case c := <-r
LoopControl ==
    /\ AtSelect
    /\ ctl # <<>>
    /\ ctl' = <<>>
    /\ handled' = Rec(handled, <<Item("ctl", ctl[1].stamp, ctl[1].cmd, ctl[1].st)>>)
    /\ ControlSwitch(ctl[1])
    /\ UNCHANGED <<reported, tickC, evQ, arrived, clock, setupErr,
                   monitorState, monitorStops, tickerOn, evTurn, recording>>
    /\ UNCHANGED mgrVars
    /\ UNCHANGED sinkVars
    /\ UNCHANGED cfgVars
    /\ UNCHANGED runVars

Cleanup_DrainsEvents ==
    /\ pc = "cleanup"
    /\ Unblocked
    /\ evQ = <<>>
    /\ IF monitorState # "nil"
         THEN /\ monitorState' = "stopped"
              /\ monitorStops' = IF recording THEN monitorStops + 1 ELSE monitorStops
              /\ log' = Rec(log, <<LogRec(LogInfo, "monitorStopped", NoEvent)>>)
         ELSE UNCHANGED <<monitorState, monitorStops, log>>
    /\ Send(StoppedStatus, FALSE)
    /\ pc' = "final"
    /\ UNCHANGED <<reported, tickC, evQ, ctl, handled, arrived, clock, setupErr, tickerOn, evTurn, recording>>
    /\ UNCHANGED mgrVars
    /\ UNCHANGED sinkVars
    /\ UNCHANGED cfgVars
    /\ UNCHANGED runVars

Cleanup_SkipsMonitor ==
    /\ pc = "cleanup"
    /\ Unblocked
    /\ Send(StoppedStatus, FALSE)
    /\ pc' = "final"
    /\ UNCHANGED <<monitorState, monitorStops, log>>
    /\ UNCHANGED <<reported, tickC, evQ, ctl, handled, arrived, clock, setupErr, tickerOn, evTurn, recording>>
    /\ UNCHANGED mgrVars
    /\ UNCHANGED sinkVars
    /\ UNCHANGED cfgVars
    /\ UNCHANGED runVars

\* lines 124-130: stop the monitor if there is one, log, changes <- Stopped
Cleanup ==
    /\ pc = "cleanup"
    /\ Unblocked
    /\ IF monitorState # "nil"
         THEN /\ monitorState' = "stopped"
              /\ monitorStops' = IF recording THEN monitorStops + 1 ELSE monitorStops
              /\ log' = Rec(log, <<LogRec(LogInfo, "monitorStopped", NoEvent)>>)
         ELSE UNCHANGED <<monitorState, monitorStops, log>>
    /\ Send(StoppedStatus, FALSE)
    /\ pc' = "final"
    /\ UNCHANGED <<reported, tickC, evQ, ctl, handled, arrived, clock, setupErr, tickerOn, evTurn, recording>>
    /\ UNCHANGED mgrVars
    /\ UNCHANGED sinkVars
    /\ UNCHANGED cfgVars
    /\ UNCHANGED runVars

Final_Silent ==
    /\ pc = "final"
    /\ Unblocked
    /\ tickerOn' = FALSE
    /\ pc' = "returned"
    /\ UNCHANGED <<out, log, reported, tickC, evQ, ctl, handled, arrived, clock, setupErr, monitorState, monitorStops, evTurn, recording>>
    /\ UNCHANGED mgrVars
    /\ UNCHANGED sinkVars
    /\ UNCHANGED cfgVars
    /\ UNCHANGED runVars

\* lines 131-133 and the deferred ticker.Stop(): log the end and return
Final ==
    /\ pc = "final"
    /\ Unblocked
    /\ log' = Rec(log, <<LogRec(LogInfo, "serviceStopped", NoEvent)>>)
    /\ tickerOn' = FALSE
    /\ pc' = "returned"
    /\ UNCHANGED <<out, reported, tickC, evQ, ctl, handled, arrived, clock, setupErr, monitorState, monitorStops, evTurn, recording>>
    /\ UNCHANGED mgrVars
    /\ UNCHANGED sinkVars
    /\ UNCHANGED cfgVars
    /\ UNCHANGED runVars

\* ---------------------------------------------------- Execute: its environment

\* the dispatcher receives from `changes`, which unblocks the callback
DispatcherTake ==
    /\ out # <<>>
    /\ reported' = Rec(reported, out)
    /\ out' = <<>>
    /\ UNCHANGED <<pc, tickC, evQ, ctl, log, handled, arrived, clock, setupErr, monitorState, monitorStops, tickerOn, evTurn, recording>>
    /\ UNCHANGED mgrVars
    /\ UNCHANGED sinkVars
    /\ UNCHANGED cfgVars
    /\ UNCHANGED runVars

\* the ticker fires: ticker.C holds one tick, a tick that finds it full is dropped
Tick ==
    /\ tickerOn
    /\ IF tickC = <<>>
         THEN /\ recording => clock <= MaxArrivals
              /\ tickC' = <<Stamp>>
              /\ arrived' = RecIn(arrived, {[src |-> "tick", stamp |-> Stamp]})
              /\ clock' = IF recording THEN clock + 1 ELSE clock
         ELSE UNCHANGED <<tickC, arrived, clock>>
    /\ UNCHANGED <<pc, out, reported, evQ, ctl, log, handled, setupErr,
                   monitorState, monitorStops, tickerOn, evTurn, recording>>
    /\ UNCHANGED mgrVars
    /\ UNCHANGED sinkVars
    /\ UNCHANGED cfgVars
    /\ UNCHANGED runVars

\* the running monitor puts an event on its stream
MonitorEmit ==
    /\ monitorState = "started"
    /\ Len(evQ) < EvCap
    /\ recording => clock <= MaxArrivals
    /\ \E e \in EventSet : evQ' = Append(evQ, [ev |-> e, stamp |-> Stamp])
    /\ arrived' = RecIn(arrived, {[src |-> "event", stamp |-> Stamp]})
    /\ clock' = IF recording THEN clock + 1 ELSE clock
    /\ UNCHANGED <<pc, out, reported, tickC, ctl, log, handled, setupErr,
                   monitorState, monitorStops, tickerOn, evTurn, recording>>
    /\ UNCHANGED mgrVars
    /\ UNCHANGED sinkVars
    /\ UNCHANGED cfgVars
    /\ UNCHANGED runVars

\* the dispatcher offers a control request on `r` (one in flight at a time)
Deliver ==
    /\ pc # "returned"
    /\ ctl = <<>>
    /\ recording => clock <= MaxArrivals
    /\ \E q \in Requests : ctl' = <<[cmd |-> q.cmd, st |-> q.st, stamp |-> Stamp]>>
    /\ arrived' = RecIn(arrived, {[src |-> "ctl", stamp |-> Stamp]})
    /\ clock' = IF recording THEN clock + 1 ELSE clock
    /\ UNCHANGED <<pc, out, reported, tickC, evQ, log, handled, setupErr,
                   monitorState, monitorStops, tickerOn, evTurn, recording>>
    /\ UNCHANGED mgrVars
    /\ UNCHANGED sinkVars
    /\ UNCHANGED cfgVars
    /\ UNCHANGED runVars

\* ------------------------------------------------- lifecycle: installService

\* ServiceConfig values a command may have loaded (config.go:32-42 gives the
\* defaults: restart on failure, delay 5)
Configs ==
    [Description : {"hj-service module"}, RestartOnFailure : BOOLEAN, RestartDelay : {0, 5}]

\* what each OS call of one command does: TRUE succeeds, FALSE returns an error
Outcomes ==
    [exe : BOOLEAN, connect : BOOLEAN, open : BOOLEAN, create : BOOLEAN,
     recovery : BOOLEAN, eventlog : BOOLEAN, delete : BOOLEAN]

\* the calls a command makes once the service is open: Start, Stop and Status
\* make none of the calls of Outcomes after OpenService, Remove makes Delete
\* and eventlog.Remove
OpenOutcomes == {o \in Outcomes : o.exe /\ o.create /\ o.recovery /\ o.eventlog /\ o.delete}
RemoveOutcomes == {o \in Outcomes : o.exe /\ o.create /\ o.recovery}
FinishOutcomes == {o \in RemoveOutcomes : o.connect /\ o.open}

Call(f, ok) == [f |-> f, ok |-> ok]

RecoveryPlan_SameDelay(d) ==
    [Actions |-> <<[Type |-> "Restart", Delay |-> d],
                   [Type |-> "Restart", Delay |-> d],
                   [Type |-> "Restart", Delay |-> d]>>,
     ResetPeriod |-> 60]

\* lines 219-223: three restarts after d, 2d and 3d seconds, reset window 60 s
RecoveryPlan(d) ==
    [Actions |-> <<[Type |-> "Restart", Delay |-> d],
                   [Type |-> "Restart", Delay |-> d * 2],
                   [Type |-> "Restart", Delay |-> d * 3]>>,
     ResetPeriod |-> 60]

NoRecovery == [Actions |-> <<>>, ResetPeriod |-> 0]

\* lines 204-209: the registration CreateService writes
NewRegistration(c) ==
    [DisplayName |-> "name", Description |-> c.Description, StartType |-> "Automatic",
     Args |-> <<"is", "auto-started">>, Recovery |-> NoRecovery]

\* m.OpenService succeeds only on a registered name (and may fail on one)
OpenOk(o) == o.open /\ registry # <<>>
\* m.CreateService succeeds only on a name that is not registered
CreateOk(o) == o.create /\ registry = <<>>
\* eventlog.InstallAsEventCreate succeeds only if the source does not exist yet
EventLogOk(o) == o.eventlog /\ ~evSource

Result(name, err, calls, reg, src) ==
    /\ op' = [name |-> name, err |-> err, calls |-> calls,
              pre |-> [registry |-> registry, evSource |-> evSource], sleeps |-> 0,
              seen |-> <<>>]
    /\ registry' = reg
    /\ evSource' = src

\* line 232: s.Delete() after a failed event-log registration; its error is not looked at
Rollback(o, reg) == IF o.delete THEN <<>> ELSE reg

\* lines 229-237: register the event-log source; if that fails delete the
\* service again and return the error
AfterRecovery(o, calls, reg) ==
    LET calls2 == Append(calls, Call("InstallAsEventCreate", EventLogOk(o)))
    IN  IF EventLogOk(o)
          THEN Result("install", "none", calls2, <<reg>>, TRUE)
          ELSE Result("install", "eventlog", Append(calls2, Call("Delete", o.delete)),
                      Rollback(o, <<reg>>), evSource)

AfterCreate_RecoveryAborts(c, o, calls) ==
    IF c.RestartOnFailure /\ ~o.recovery
      THEN Result("install", "recovery", Append(calls, Call("SetRecoveryActions", FALSE)),
                  <<NewRegistration(c)>>, evSource)
      ELSE AfterRecovery(o, IF c.RestartOnFailure
                              THEN Append(calls, Call("SetRecoveryActions", TRUE))
                              ELSE calls,
                         IF c.RestartOnFailure
                           THEN [NewRegistration(c) EXCEPT !.Recovery = RecoveryPlan(c.RestartDelay)]
                           ELSE NewRegistration(c))

\* lines 216-227: with RestartOnFailure the recovery actions are set; an error
\* of SetRecoveryActions is printed and installation goes on
AfterCreate(c, o, calls) ==
    LET reg0 == NewRegistration(c)
        reg1 == IF c.RestartOnFailure /\ o.recovery
                  THEN [reg0 EXCEPT !.Recovery = RecoveryPlan(c.RestartDelay)]
                  ELSE reg0
        calls1 == IF c.RestartOnFailure
                    THEN Append(calls, Call("SetRecoveryActions", o.recovery))
                    ELSE calls
    IN  AfterRecovery(o, calls1, reg1)

\* lines 197-201: an OpenService that succeeds means the service exists
ExistsCheck_Skipped(o) == FALSE

ExistsCheck(o) == OpenOk(o)

\* lines 185-238
installService(c, o) ==
    IF ~o.exe THEN Result("install", "exepath", <<>>, registry, evSource)
    ELSE IF ~o.connect
      THEN Result("install", "connect", <<Call("Connect", FALSE)>>, registry, evSource)
    ELSE IF ExistsCheck(o)
      THEN Result("install", "exists",
                  <<Call("Connect", TRUE), Call("OpenService", TRUE)>>, registry, evSource)
    ELSE LET calls == <<Call("Connect", TRUE), Call("OpenService", OpenOk(o)),
                        Call("CreateService", CreateOk(o))>>
         IN  IF ~CreateOk(o)
               THEN Result("install", "create", calls, registry, evSource)
               ELSE AfterCreate(c, o, calls)

Install ==
    /\ mpc = "idle"
    /\ \E c \in Configs, o \in Outcomes :
         /\ cfg' = c
         /\ installService(c, o)
    /\ UNCHANGED mpc
    /\ UNCHANGED execVars
    /\ UNCHANGED sinkVars
    /\ UNCHANGED cfgVars
    /\ UNCHANGED runVars

\* -------------------------------------------------- lifecycle: removeService

\* states a Control(Stop) or a Query may report
PollStates == {"StopPending", "Stopped"}

\* eventlog.Remove succeeds only if the source exists
EventLogRemoveOk(o) == o.eventlog /\ evSource

removeFinish_IgnoresEventLog(cur, o, calls, sleeps) ==
    IF ~o.delete
      THEN /\ op' = [cur EXCEPT !.err = "delete", !.sleeps = sleeps,
                                !.calls = Append(calls, Call("Delete", FALSE))]
           /\ UNCHANGED <<registry, evSource>>
      ELSE /\ registry' = <<>>
           /\ evSource' = IF EventLogRemoveOk(o) THEN FALSE ELSE evSource
           /\ op' = [cur EXCEPT !.err = "none", !.sleeps = sleeps,
                                !.calls = calls \o <<Call("Delete", TRUE),
                                                     Call("Remove", EventLogRemoveOk(o))>>]

\* lines 270-283: delete the registration, then remove the event-log source
removeFinish(cur, o, calls, sleeps) ==
    IF ~o.delete
      THEN /\ op' = [cur EXCEPT !.err = "delete", !.sleeps = sleeps,
                                !.calls = Append(calls, Call("Delete", FALSE))]
           /\ UNCHANGED <<registry, evSource>>
      ELSE /\ registry' = <<>>
           /\ evSource' = IF EventLogRemoveOk(o) THEN FALSE ELSE evSource
           /\ op' = [cur EXCEPT !.err = IF EventLogRemoveOk(o) THEN "none" ELSE "eventlog",
                                !.sleeps = sleeps,
                                !.calls = calls \o <<Call("Delete", TRUE),
                                                     Call("Remove", EventLogRemoveOk(o))>>]

RemoveWaits_Never(st) == FALSE

\* line 261: for status.State != svc.Stopped
RemoveWaits(st) == st # "Stopped"

\* the record of a command that has just been entered
Begun(name) ==
    [name |-> name, err |-> "pending", calls |-> <<>>,
     pre |-> [registry |-> registry, evSource |-> evSource], sleeps |-> 0, seen |-> <<>>]

\* lines 241-261: connect, open, Control(Stop); wait unless it failed or reported Stopped
RemoveBegin ==
    /\ mpc = "idle"
    /\ \E o \in RemoveOutcomes, stopOk \in BOOLEAN, st \in PollStates :
         LET start == Begun("remove")
         IN  IF ~o.connect
               THEN /\ op' = [start EXCEPT !.err = "connect", !.calls = <<Call("Connect", FALSE)>>]
                    /\ UNCHANGED <<registry, evSource, mpc>>
             ELSE IF ~OpenOk(o)
               THEN /\ op' = [start EXCEPT !.err = "open",
                                !.calls = <<Call("Connect", TRUE), Call("OpenService", FALSE)>>]
                    /\ UNCHANGED <<registry, evSource, mpc>>
             ELSE LET calls == <<Call("Connect", TRUE), Call("OpenService", TRUE),
                                 Call("Control", stopOk)>>
                      read == IF stopOk THEN <<st>> ELSE <<>>
                  IN  IF stopOk /\ RemoveWaits(st)
                        THEN /\ op' = [start EXCEPT !.calls = calls, !.seen = read]
                             /\ mpc' = "removePoll"
                             /\ UNCHANGED <<registry, evSource>>
                        ELSE /\ removeFinish([start EXCEPT !.seen = read], o, calls, 0)
                             /\ UNCHANGED mpc
    /\ UNCHANGED cfg
    /\ UNCHANGED execVars
    /\ UNCHANGED sinkVars
    /\ UNCHANGED cfgVars
    /\ UNCHANGED runVars

\* lines 261-267: sleep 500 ms, Query; leave the loop on Stopped or on an error
RemovePoll ==
    /\ mpc = "removePoll"
    /\ op.sleeps < MaxPolls
    /\ \E o \in FinishOutcomes, queryOk \in BOOLEAN, st \in PollStates :
         LET calls == Append(op.calls, Call("Query", queryOk))
             read == IF queryOk THEN Append(op.seen, st) ELSE op.seen
         IN  IF queryOk /\ RemoveWaits(st)
               THEN /\ op' = [op EXCEPT !.calls = calls, !.sleeps = op.sleeps + 1,
                                        !.seen = read]
                    /\ UNCHANGED <<registry, evSource, mpc>>
               ELSE /\ removeFinish([op EXCEPT !.seen = read], o, calls, op.sleeps + 1)
                    /\ mpc' = "idle"
    /\ UNCHANGED cfg
    /\ UNCHANGED execVars
    /\ UNCHANGED sinkVars
    /\ UNCHANGED cfgVars
    /\ UNCHANGED runVars

\* --------------------------------------------------- lifecycle: startService

startService_IgnoresOpen(o, startOk) ==
    IF ~o.connect
      THEN [Begun("start") EXCEPT !.err = "connect", !.calls = <<Call("Connect", FALSE)>>]
      ELSE [Begun("start") EXCEPT !.err = IF startOk THEN "none" ELSE "start",
                                  !.calls = <<Call("Connect", TRUE), Call("OpenService", OpenOk(o)),
                                              Call("Start", startOk)>>]

\* lines 287-307: connect, open, s.Start(); the first error is returned
startService(o, startOk) ==
    IF ~o.connect
      THEN [Begun("start") EXCEPT !.err = "connect", !.calls = <<Call("Connect", FALSE)>>]
    ELSE IF ~OpenOk(o)
      THEN [Begun("start") EXCEPT !.err = "open",
                                  !.calls = <<Call("Connect", TRUE), Call("OpenService", FALSE)>>]
    ELSE [Begun("start") EXCEPT !.err = IF startOk THEN "none" ELSE "start",
                                !.calls = <<Call("Connect", TRUE), Call("OpenService", TRUE),
                                            Call("Start", startOk)>>]

Start ==
    /\ mpc = "idle"
    /\ \E o \in OpenOutcomes, startOk \in BOOLEAN : op' = startService(o, startOk)
    /\ UNCHANGED <<registry, evSource, cfg, mpc>>
    /\ UNCHANGED execVars
    /\ UNCHANGED sinkVars
    /\ UNCHANGED cfgVars
    /\ UNCHANGED runVars

\* ---------------------------------------------------- lifecycle: stopService

StopWaits_Never(st) == FALSE

\* line 329: for status.State != svc.Stopped
StopWaits(st) == st # "Stopped"

Sleep500_Skipped(n) == n

\* line 330: time.Sleep(500 * time.Millisecond), counted in op.sleeps
Sleep500(n) == n + 1

\* lines 310-329: connect, open, Control(Stop); an error of any of them is
\* returned, otherwise the status Control returned decides whether to wait
StopBegin ==
    /\ mpc = "idle"
    /\ \E o \in OpenOutcomes, stopOk \in BOOLEAN, st \in PollStates :
         LET start == Begun("stop")
         IN  IF ~o.connect
               THEN /\ op' = [start EXCEPT !.err = "connect", !.calls = <<Call("Connect", FALSE)>>]
                    /\ UNCHANGED mpc
             ELSE IF ~OpenOk(o)
               THEN /\ op' = [start EXCEPT !.err = "open",
                                !.calls = <<Call("Connect", TRUE), Call("OpenService", FALSE)>>]
                    /\ UNCHANGED mpc
             ELSE LET calls == <<Call("Connect", TRUE), Call("OpenService", TRUE),
                                 Call("Control", stopOk)>>
                  IN  IF ~stopOk
                        THEN /\ op' = [start EXCEPT !.err = "control", !.calls = calls]
                             /\ UNCHANGED mpc
                      ELSE IF StopWaits(st)
                        THEN /\ op' = [start EXCEPT !.calls = calls, !.seen = <<st>>]
                             /\ mpc' = "stopPoll"
                        ELSE /\ op' = [start EXCEPT !.err = "none", !.calls = calls,
                                                    !.seen = <<st>>]
                             /\ UNCHANGED mpc
    /\ UNCHANGED <<registry, evSource, cfg>>
    /\ UNCHANGED execVars
    /\ UNCHANGED sinkVars
    /\ UNCHANGED cfgVars
    /\ UNCHANGED runVars

StopPoll_GivesUp ==
    /\ mpc = "stopPoll"
    /\ op.sleeps < MaxPolls
    /\ \E queryOk \in BOOLEAN, st \in PollStates :
         LET calls == Append(op.calls, Call("Query", queryOk))
             slept == Sleep500(op.sleeps)
         IN  IF ~queryOk
               THEN /\ op' = [op EXCEPT !.err = "query", !.calls = calls, !.sleeps = slept]
                    /\ mpc' = "idle"
             ELSE IF StopWaits(st)
               THEN /\ op' = [op EXCEPT !.err = "timeout", !.calls = calls, !.sleeps = slept,
                                        !.seen = Append(op.seen, st)]
                    /\ mpc' = "idle"
               ELSE /\ op' = [op EXCEPT !.err = "none", !.calls = calls, !.sleeps = slept,
                                        !.seen = Append(op.seen, st)]
                    /\ mpc' = "idle"
    /\ UNCHANGED <<registry, evSource, cfg>>
    /\ UNCHANGED execVars
    /\ UNCHANGED sinkVars
    /\ UNCHANGED cfgVars
    /\ UNCHANGED runVars

\* lines 329-335: one pass of the wait: sleep 500 ms, Query; a Query error is
\* returned, a status other than Stopped starts the next pass
StopPoll ==
    /\ mpc = "stopPoll"
    /\ op.sleeps < MaxPolls
    /\ \E queryOk \in BOOLEAN, st \in PollStates :
         LET calls == Append(op.calls, Call("Query", queryOk))
             slept == Sleep500(op.sleeps)
         IN  IF ~queryOk
               THEN /\ op' = [op EXCEPT !.err = "query", !.calls = calls, !.sleeps = slept]
                    /\ mpc' = "idle"
             ELSE IF StopWaits(st)
               THEN /\ op' = [op EXCEPT !.calls = calls, !.sleeps = slept,
                                        !.seen = Append(op.seen, st)]
                    /\ UNCHANGED mpc
               ELSE /\ op' = [op EXCEPT !.err = "none", !.calls = calls, !.sleeps = slept,
                                        !.seen = Append(op.seen, st)]
                    /\ mpc' = "idle"
    /\ UNCHANGED <<registry, evSource, cfg>>
    /\ UNCHANGED execVars
    /\ UNCHANGED sinkVars
    /\ UNCHANGED cfgVars
    /\ UNCHANGED runVars

\* -------------------------------------------------- lifecycle: statusService

\* svc.State values Query may report; "Other" is any value the switch of
\* lines 361-378 has no case for
States ==
    {"Running", "Stopped", "StartPending", "StopPending", "PausePending", "Paused",
     "ContinuePending", "Other"}

\* lines 342-382: connect, open, Query; the first error is returned, otherwise
\* the state read is printed
statusService(o, queryOk, st) ==
    IF ~o.connect
      THEN [Begun("status") EXCEPT !.err = "connect", !.calls = <<Call("Connect", FALSE)>>]
    ELSE IF ~OpenOk(o)
      THEN [Begun("status") EXCEPT !.err = "open",
                                   !.calls = <<Call("Connect", TRUE), Call("OpenService", FALSE)>>]
    ELSE IF ~queryOk
      THEN [Begun("status") EXCEPT !.err = "query",
                                   !.calls = <<Call("Connect", TRUE), Call("OpenService", TRUE),
                                               Call("Query", FALSE)>>]
    ELSE [Begun("status") EXCEPT !.err = "none", !.seen = <<st>>,
                                 !.calls = <<Call("Connect", TRUE), Call("OpenService", TRUE),
                                             Call("Query", TRUE)>>]

QueryStatus ==
    /\ mpc = "idle"
    /\ \E o \in OpenOutcomes, queryOk \in BOOLEAN, st \in States :
         op' = statusService(o, queryOk, st)
    /\ UNCHANGED <<registry, evSource, cfg, mpc>>
    /\ UNCHANGED execVars
    /\ UNCHANGED sinkVars
    /\ UNCHANGED cfgVars
    /\ UNCHANGED runVars

InitMgr ==
    /\ registry = <<>>
    /\ evSource = FALSE
    /\ cfg = [Description |-> "hj-service module", RestartOnFailure |-> TRUE, RestartDelay |-> 5]
    /\ mpc = "idle"
    /\ op = [name |-> "none", err |-> "none", calls |-> <<>>,
             pre |-> [registry |-> <<>>, evSource |-> FALSE], sleeps |-> 0, seen |-> <<>>]

\* ------------------------------------------------------------------ logging

Levels == {LogInfo, LogError, LogWarning}
Messages == {"m1", "m2"}

\* line 485: fileLogger.Printf("[%s] %s", level, message)
FileLine(level, msg) == <<"[", level, "] ", msg>>
\* line 502: log.Printf("[%s] %s", level, message)
ConsoleLine(level, msg) == <<"[", level, "] ", msg>>
\* line 475: the line a successful initializeFileLogger writes
InitLine == <<"file logger initialized">>

\* lines 490-497: elog.Error, elog.Warning or (default) elog.Info, event id 1
ElogEntry(level, msg) ==
    [kind |-> IF level = LogError THEN "Error"
              ELSE IF level = LogWarning THEN "Warning" ELSE "Info",
     eid |-> 1, msg |-> msg]

\* a Printf on a handle that has been closed writes nothing; its error is dropped
Writable(h) == h # 0 /\ h \in openFiles

\* lines 484-486
FileDelivery(level, msg) ==
    IF fileLogger # 0 /\ Writable(fileLogger)
      THEN Append(fileOut, FileLine(level, msg))
      ELSE fileOut

EventLogDelivery_NeedsFile(level, msg) ==
    IF fileLogger # 0 /\ elog # "nil"
      THEN Append(elogOut, ElogEntry(level, msg))
      ELSE elogOut

\* lines 489-498
EventLogDelivery(level, msg) ==
    IF elog # "nil"
      THEN Append(elogOut, ElogEntry(level, msg))
      ELSE elogOut

\* lines 501-503
ConsoleDelivery(level, msg) ==
    IF isDebug
      THEN Append(console, ConsoleLine(level, msg))
      ELSE console

\* lines 480-504
logMessage ==
    /\ Len(logCalls) < MaxLogs
    /\ \E level \in Levels, msg \in Messages :
         /\ logCalls' = Append(logCalls, [level |-> level, msg |-> msg])
         /\ fileOut' = FileDelivery(level, msg)
         /\ elogOut' = EventLogDelivery(level, msg)
         /\ console' = ConsoleDelivery(level, msg)
    /\ UNCHANGED <<fileLogger, logFile, openFiles, nextFd, elog, isDebug>>
    /\ UNCHANGED execVars
    /\ UNCHANGED mgrVars
    /\ UNCHANGED cfgVars
    /\ UNCHANGED runVars

AfterCloseOld_Leaks == openFiles

\* lines 454-456: if logFile != nil { logFile.Close() }
AfterCloseOld == openFiles \ {logFile}

\* lines 452-477: close the old handle; MkdirAll may fail (logFile keeps
\* referring to the closed handle); OpenFile may fail (logFile becomes nil);
\* otherwise logFile and fileLogger refer to the new handle and one line is written
initializeFileLogger ==
    /\ \E mkdirOk \in BOOLEAN, openOk \in BOOLEAN :
         IF ~mkdirOk
           THEN /\ openFiles' = AfterCloseOld
                /\ UNCHANGED <<logFile, fileLogger, nextFd, fileOut>>
         ELSE IF ~openOk
           THEN /\ openFiles' = AfterCloseOld
                /\ logFile' = 0
                /\ UNCHANGED <<fileLogger, nextFd, fileOut>>
           ELSE /\ nextFd < MaxOpens
                /\ nextFd' = nextFd + 1
                /\ logFile' = nextFd + 1
                /\ openFiles' = AfterCloseOld \cup {nextFd + 1}
                /\ fileLogger' = nextFd + 1
                /\ fileOut' = Append(fileOut, InitLine)
    /\ UNCHANGED <<elog, isDebug, elogOut, console, logCalls>>
    /\ UNCHANGED execVars
    /\ UNCHANGED mgrVars
    /\ UNCHANGED cfgVars
    /\ UNCHANGED runVars

\* lines 42-46 and 507-511: the deferred close of Execute and of main
CloseLogFile ==
    /\ openFiles' = openFiles \ {logFile}
    /\ UNCHANGED <<fileLogger, logFile, nextFd, elog, isDebug, fileOut, elogOut, console, logCalls>>
    /\ UNCHANGED execVars
    /\ UNCHANGED mgrVars
    /\ UNCHANGED cfgVars
    /\ UNCHANGED runVars

\* lines 155-164: elog = debug.New(name) or eventlog.Open(name); when Open
\* fails the process exits (log.Fatalf) and logs nothing more
OpenEventLog ==
    /\ elog = "nil"
    /\ elog' = "open"
    /\ UNCHANGED <<fileLogger, logFile, openFiles, nextFd, isDebug, fileOut, elogOut, console, logCalls>>
    /\ UNCHANGED execVars
    /\ UNCHANGED mgrVars
    /\ UNCHANGED cfgVars
    /\ UNCHANGED runVars

\* the package variables of lines 20-27 before anything has been assigned
InitSink ==
    /\ fileLogger = 0
    /\ logFile = 0
    /\ openFiles = {}
    /\ nextFd = 0
    /\ elog = "nil"
    /\ fileOut = <<>>
    /\ elogOut = <<>>
    /\ console = <<>>
    /\ logCalls = <<>>

\* ------------------------------------------------------ main: configuration

\* the fields of ServiceConfig the commands read (config.go:14-29)
\* var defaultConfig (config.go:32-42)
defaultConfig ==
    [ServiceName |-> "hj-service", RestartOnFailure |-> TRUE, RestartDelay |-> 5]

\* `var config ServiceConfig` (config.go:46): every field has its zero value
ZeroConfig ==
    [ServiceName |-> "", RestartOnFailure |-> FALSE, RestartDelay |-> 0]

\* JSON objects a configuration file may hold: a key is absent (<<>>) or has a
\* value of the field's type
JsonObjects ==
    [service_name : {<<>>, <<"">>, <<"svc1">>},
     restart_on_failure : {<<>>, <<TRUE>>, <<FALSE>>},
     restart_delay : {<<>>, <<-5>>, <<0>>, <<5>>}]

\* json.MarshalIndent(config) (config.go:80): every field is written
Marshal(c) ==
    [service_name |-> <<c.ServiceName>>,
     restart_on_failure |-> <<c.RestartOnFailure>>,
     restart_delay |-> <<c.RestartDelay>>]

\* json.Unmarshal(configData, &config) (config.go:60): a key that is present
\* sets its field, a field whose key is absent keeps its zero value
Unmarshal(o) ==
    [ServiceName |-> IF o.service_name = <<>> THEN ZeroConfig.ServiceName
                     ELSE o.service_name[1],
     RestartOnFailure |-> IF o.restart_on_failure = <<>> THEN ZeroConfig.RestartOnFailure
                          ELSE o.restart_on_failure[1],
     RestartDelay |-> IF o.restart_delay = <<>> THEN ZeroConfig.RestartDelay
                      ELSE o.restart_delay[1]]

\* the file: missing, unreadable, not a JSON object of the right types, or one
File(kind, obj) == [kind |-> kind, obj |-> obj]
ConfigFiles ==
    {File(k, Marshal(defaultConfig)) : k \in {"missing", "unreadable", "malformed"}}
    \cup {File("json", o) : o \in JsonObjects}

\* config.go:45-66
LoadConfig(f) ==
    IF f.kind = "missing" THEN [err |-> FALSE, cfg |-> defaultConfig]
    ELSE IF f.kind \in {"unreadable", "malformed"} THEN [err |-> TRUE, cfg |-> ZeroConfig]
    ELSE [err |-> FALSE, cfg |-> Unmarshal(f.obj)]

\* config.go:90-99, called at main.go:521: write the default file if there is
\* none; a failure to write it is only printed
EnsureDefaultConfig ==
    /\ cpc = "main"
    /\ IF configFile.kind = "missing"
         THEN \E saveOk \in BOOLEAN :
                configFile' = IF saveOk THEN File("json", Marshal(defaultConfig))
                              ELSE configFile
         ELSE UNCHANGED configFile
    /\ cpc' = "ensured"
    /\ UNCHANGED <<config, handed>>
    /\ UNCHANGED execVars
    /\ UNCHANGED mgrVars
    /\ UNCHANGED sinkVars
    /\ UNCHANGED runVars

\* main.go:523-526: config, err = LoadConfig(configPath); an error is fatal
Load ==
    /\ cpc = "ensured"
    /\ LET r == LoadConfig(configFile)
       IN  IF r.err
             THEN cpc' = "fatal" /\ UNCHANGED config
             ELSE cpc' = "loaded" /\ config' = <<r.cfg>>
    /\ UNCHANGED <<configFile, handed>>
    /\ UNCHANGED execVars
    /\ UNCHANGED mgrVars
    /\ UNCHANGED sinkVars
    /\ UNCHANGED runVars

\* the first command-line argument; "none": no argument, "bogus": an unknown one
Commands == {"install", "remove", "start", "stop", "status", "debug"}

\* main.go:529-560: run as a service when the OS started the process, else
\* run the command named by the first argument, with config.ServiceName
Dispatch ==
    /\ cpc = "loaded"
    /\ \E checkOk \in BOOLEAN, isWindowsService \in BOOLEAN,
          cmd \in Commands \cup {"none", "bogus"} :
         IF ~checkOk
           THEN cpc' = "fatal" /\ UNCHANGED handed
         ELSE IF isWindowsService
           THEN /\ cpc' = "dispatched"
                /\ handed' = <<[cmd |-> "service", config |-> config[1]]>>
         ELSE IF cmd \in Commands
           THEN /\ cpc' = "dispatched"
                /\ handed' = <<[cmd |-> cmd, config |-> config[1]]>>
           ELSE cpc' = "usage" /\ UNCHANGED handed
    /\ UNCHANGED <<configFile, config>>
    /\ UNCHANGED execVars
    /\ UNCHANGED mgrVars
    /\ UNCHANGED sinkVars
    /\ UNCHANGED runVars

\* the process has just started
InitMain ==
    /\ configFile \in ConfigFiles
    /\ config = <<>>
    /\ cpc = "main"
    /\ handed = <<>>

\* main has loaded the default configuration and is running a command
InitLoaded ==
    /\ configFile = File("json", Marshal(defaultConfig))
    /\ config = <<defaultConfig>>
    /\ cpc = "dispatched"
    /\ handed = <<>>

\* ------------------------------------------- runService followed by Execute

\* a file path: absolute or relative, and its elements
Path(abs, parts) == [abs |-> abs, parts |-> parts]

\* line 400: filepath.Abs(filepath.Dir(os.Args[0]))
execDir == Path(TRUE, <<"C:", "svc">>)

\* filepath.IsAbs (lines 408, 414, 420)
IsAbs(p) == p.abs

\* filepath.Join(execDir, rel) (lines 411, 417, 423)
Join(a, b) == Path(a.abs, a.parts \o b.parts)

RECURSIVE CleanParts(_, _)
CleanParts(parts, acc) ==
    IF parts = <<>> THEN acc
    ELSE IF Head(parts) = "." THEN CleanParts(Tail(parts), acc)
    ELSE IF Head(parts) = ".." /\ Len(acc) > 1
      THEN CleanParts(Tail(parts), SubSeq(acc, 1, Len(acc) - 1))
    ELSE CleanParts(Tail(parts), Append(acc, Head(parts)))

\* filepath.Clean (lines 427-429): drops "." elements and resolves ".."
Clean(p) == Path(p.abs, CleanParts(p.parts, <<>>))

Resolved_AlwaysJoins(p) == Clean(Join(execDir, p))

\* lines 408-429: the value a path field is given
Resolved(p) == Clean(IF IsAbs(p) THEN p ELSE Join(execDir, p))

\* the path fields as loaded: the defaults of config.go:38-41, and a file that
\* gives an absolute log path and paths with ".." elements
PathConfigs ==
    {[LogPath |-> Path(FALSE, <<".", "logs">>),
      DatabasePath |-> Path(FALSE, <<".", "db.sqlite">>),
      CustomDataPath |-> Path(FALSE, <<".", "data">>)],
     [LogPath |-> Path(TRUE, <<"D:", "logs">>),
      DatabasePath |-> Path(FALSE, <<"db", "..", "db.sqlite">>),
      CustomDataPath |-> Path(FALSE, <<"data">>)]}

\* lines 398-450: filepath.Abs may fail (nothing assigned); the three fields
\* are assigned; MkdirAll may fail
initializeDirectories(ps, absOk, mkdirOk) ==
    IF ~absOk THEN [err |-> TRUE, paths |-> ps, assigns |-> 0]
    ELSE [err |-> ~mkdirOk,
          paths |-> [LogPath |-> Resolved(ps.LogPath),
                     DatabasePath |-> Resolved(ps.DatabasePath),
                     CustomDataPath |-> Resolved(ps.CustomDataPath)],
          assigns |-> 1]

\* the Log Sink's variables as one value, to follow them through a function body
Sink ==
    [fl |-> fileLogger, lf |-> logFile, open |-> openFiles, fd |-> nextFd,
     elog |-> elog, dbg |-> isDebug, file |-> fileOut, ev |-> elogOut,
     con |-> console, calls |-> logCalls, late |-> lateWrites]

Commit(s) ==
    /\ fileLogger' = s.fl
    /\ logFile' = s.lf
    /\ openFiles' = s.open
    /\ nextFd' = s.fd
    /\ elog' = s.elog
    /\ isDebug' = s.dbg
    /\ fileOut' = s.file
    /\ elogOut' = s.ev
    /\ console' = s.con
    /\ logCalls' = s.calls
    /\ lateWrites' = s.late

\* fileLogger.Printf (lines 152, 160, 167, 176, 180, 475, 485): the line
\* reaches the file if the logger's file is open, else the write fails and its
\* error is dropped
PrintfTo(s, line) ==
    IF s.fl \in s.open
      THEN [s EXCEPT !.file = Append(@, line)]
      ELSE [s EXCEPT !.late = Append(@, line)]

\* lines 480-504
LogTo(s, level, msg) ==
    LET a == IF s.fl # 0 THEN PrintfTo(s, FileLine(level, msg)) ELSE s
        b == IF a.elog # "nil"
               THEN [a EXCEPT !.ev = Append(@, ElogEntry(level, msg))] ELSE a
        c == IF b.dbg
               THEN [b EXCEPT !.con = Append(@, ConsoleLine(level, msg))] ELSE b
    IN  [c EXCEPT !.calls = Append(@, [level |-> level, msg |-> msg])]

RECURSIVE LogAll(_, _, _)
LogAll(s, level, msgs) ==
    IF msgs = <<>> THEN s
    ELSE LogAll(LogTo(s, level, Head(msgs)), level, Tail(msgs))

\* lines 452-477 (as the action initializeFileLogger)
InitLoggerTo(s, mkdirOk, openOk) ==
    LET closed == [s EXCEPT !.open = @ \ {s.lf}]
    IN  IF ~mkdirOk THEN closed
        ELSE IF ~openOk THEN [closed EXCEPT !.lf = 0]
        ELSE PrintfTo([closed EXCEPT !.fd = s.fd + 1, !.lf = s.fd + 1,
                                     !.fl = s.fd + 1, !.open = @ \cup {s.fd + 1}],
                      InitLine)

CloseTo_KeepsOpen(s) == s

\* lines 42-46 and 507-511: if logFile != nil { logFile.Close() }
CloseTo(s) == [s EXCEPT !.open = @ \ {s.lf}]

Assign(field, n) == [assigned EXCEPT ![field] = @ + n]

\* lines 135-143 (log.Fatalf ends the process; deferred calls do not run)
RunInitDirs ==
    /\ rpc = "runService"
    /\ \E debugMode \in BOOLEAN, absOk \in BOOLEAN, mkdirOk \in BOOLEAN :
         LET r == initializeDirectories(paths, absOk, mkdirOk)
         IN  /\ Commit([Sink EXCEPT !.dbg = debugMode])
             /\ paths' = r.paths
             /\ assigned' = Assign("paths", r.assigns)
             /\ rpc' = IF r.err THEN "exited" ELSE "logger"
    /\ UNCHANGED <<monitorInstance, loops>>
    /\ UNCHANGED execVars
    /\ UNCHANGED mgrVars
    /\ UNCHANGED cfgVars

\* lines 145-153
RunInitLogger ==
    /\ rpc = "logger"
    /\ nextFd < MaxOpens
    /\ \E mkdirOk \in BOOLEAN, openOk \in BOOLEAN :
         LET s1 == InitLoggerTo(Sink, mkdirOk, openOk)
         IN  /\ assigned' = Assign("logFile", IF mkdirOk THEN 1 ELSE 0)
             /\ IF mkdirOk /\ openOk
                  THEN /\ Commit(LogTo(PrintfTo(s1, <<"runServiceStart">>),
                                       LogInfo, "runServiceStart"))
                       /\ rpc' = "eventlog"
                  ELSE /\ Commit(s1)
                       /\ rpc' = "exited"
    /\ UNCHANGED <<paths, monitorInstance, loops>>
    /\ UNCHANGED execVars
    /\ UNCHANGED mgrVars
    /\ UNCHANGED cfgVars

\* lines 155-168
RunOpenEventLog ==
    /\ rpc = "eventlog"
    /\ \E openOk \in BOOLEAN :
         IF isDebug \/ openOk
           THEN /\ Commit(LogTo(PrintfTo([Sink EXCEPT !.elog = "open"],
                                         <<"serviceStarting">>),
                                LogInfo, "serviceStarting"))
                /\ rpc' = "run"
           ELSE /\ Commit(PrintfTo(Sink, <<"eventLogFailed">>))
                /\ rpc' = "exited"
    /\ UNCHANGED <<paths, monitorInstance, loops, assigned>>
    /\ UNCHANGED execVars
    /\ UNCHANGED mgrVars
    /\ UNCHANGED cfgVars

\* lines 170-174: run calls Execute, or fails before it does
RunCall ==
    /\ rpc = "run"
    /\ \E runOk \in BOOLEAN : rpc' = IF runOk THEN "Execute" ELSE "failed"
    /\ UNCHANGED <<paths, monitorInstance, loops, assigned, lateWrites>>
    /\ UNCHANGED execVars
    /\ UNCHANGED mgrVars
    /\ UNCHANGED cfgVars
    /\ UNCHANGED sinkVars

\* lines 48-53
ExecArgs ==
    /\ rpc = "Execute"
    /\ \E args \in ArgLists :
         Commit(LogAll(Sink, LogInfo, [i \in 1..Len(args) |-> "arg"]))
    /\ rpc' = "x_dirs"
    /\ UNCHANGED <<paths, monitorInstance, loops, assigned>>
    /\ UNCHANGED execVars
    /\ UNCHANGED mgrVars
    /\ UNCHANGED cfgVars

\* lines 55-59; a return runs the deferred close of lines 42-46
ExecInitDirs ==
    /\ rpc = "x_dirs"
    /\ \E absOk \in BOOLEAN, mkdirOk \in BOOLEAN :
         LET r == initializeDirectories(paths, absOk, mkdirOk)
         IN  /\ paths' = r.paths
             /\ assigned' = Assign("paths", r.assigns)
             /\ IF r.err
                  THEN /\ Commit(CloseTo(LogTo(Sink, LogError, "dirInitFailed")))
                       /\ rpc' = "ran"
                  ELSE /\ Commit(Sink)
                       /\ rpc' = "x_logger"
    /\ UNCHANGED <<monitorInstance, loops>>
    /\ UNCHANGED execVars
    /\ UNCHANGED mgrVars
    /\ UNCHANGED cfgVars

\* lines 61-65; a return runs the deferred close of lines 42-46
ExecInitLogger ==
    /\ rpc = "x_logger"
    /\ nextFd < MaxOpens
    /\ \E mkdirOk \in BOOLEAN, openOk \in BOOLEAN :
         LET s1 == InitLoggerTo(Sink, mkdirOk, openOk)
         IN  /\ assigned' = Assign("logFile", IF mkdirOk THEN 1 ELSE 0)
             /\ IF mkdirOk /\ openOk
                  THEN /\ Commit(s1)
                       /\ rpc' = "x_monitor"
                  ELSE /\ Commit(CloseTo(LogTo(s1, LogError, "logInitFailed")))
                       /\ rpc' = "ran"
    /\ UNCHANGED <<paths, monitorInstance, loops>>
    /\ UNCHANGED execVars
    /\ UNCHANGED mgrVars
    /\ UNCHANGED cfgVars

\* lines 67-92; a return runs the deferred close of lines 42-46
ExecMonitor ==
    /\ rpc = "x_monitor"
    /\ monitorInstance' = "set"
    /\ assigned' = Assign("monitor", 1)
    /\ \E startOk \in BOOLEAN :
         LET s1 == LogAll(Sink, LogInfo, <<"monitorInitialized", "dbPath">>)
         IN  IF startOk
               THEN /\ Commit(LogAll(s1, LogInfo, <<"monitorStarted", "serviceStarted">>))
                    /\ rpc' = "x_loop"
               ELSE /\ Commit(CloseTo(LogTo(s1, LogError, "monitorStartFailed")))
                    /\ rpc' = "ran"
    /\ UNCHANGED <<paths, loops>>
    /\ UNCHANGED execVars
    /\ UNCHANGED mgrVars
    /\ UNCHANGED cfgVars

\* lines 98-119: an iteration that stays in the loop logs one record
ExecLoop ==
    /\ rpc = "x_loop"
    /\ loops < MaxLogs
    /\ loops' = loops + 1
    /\ \E r \in {[level |-> LogInfo, msg |-> "heartbeat"],
                 [level |-> LogInfo, msg |-> "fileEvent"],
                 [level |-> UnexpectedLevel, msg |-> "unexpectedControl"]} :
         Commit(LogTo(Sink, r.level, r.msg))
    /\ UNCHANGED <<rpc, paths, monitorInstance, assigned>>
    /\ UNCHANGED execVars
    /\ UNCHANGED mgrVars
    /\ UNCHANGED cfgVars

\* lines 112-133, then the deferred close of lines 42-46
ExecStop ==
    /\ rpc = "x_loop"
    /\ Commit(CloseTo(LogAll(Sink, LogInfo,
                             <<"stopRequested", "monitorStopped", "serviceStopped">>)))
    /\ rpc' = "ran"
    /\ UNCHANGED <<paths, monitorInstance, loops, assigned>>
    /\ UNCHANGED execVars
    /\ UNCHANGED mgrVars
    /\ UNCHANGED cfgVars

\* lines 175-182, then main's deferred close (lines 507-511)
RunReturn ==
    /\ rpc \in {"failed", "ran"}
    /\ LET level == IF rpc = "failed" THEN LogError ELSE LogInfo
           msg == IF rpc = "failed" THEN "runFailed" ELSE "serviceStopped"
       IN  Commit(CloseTo(LogTo(PrintfTo(Sink, <<msg>>), level, msg)))
    /\ rpc' = "done"
    /\ UNCHANGED <<paths, monitorInstance, loops, assigned>>
    /\ UNCHANGED execVars
    /\ UNCHANGED mgrVars
    /\ UNCHANGED cfgVars

\* main has called runService (lines 534, 556)
InitRun ==
    /\ rpc = "runService"
    /\ paths \in PathConfigs
    /\ monitorInstance = "nil"
    /\ loops = 0
    /\ assigned = [logFile |-> 0, paths |-> 0, monitor |-> 0]
    /\ lateWrites = <<>>

\* runService is not running
InitNoRun ==
    /\ rpc = "idle"
    /\ paths = CHOOSE ps \in PathConfigs : ~IsAbs(ps.LogPath)
    /\ monitorInstance = "nil"
    /\ loops = 0
    /\ assigned = [logFile |-> 0, paths |-> 0, monitor |-> 0]
    /\ lateWrites = <<>>

Init ==
    /\ InitExec /\ recording = TRUE /\ InitMgr /\ InitSink /\ isDebug = FALSE
    /\ InitLoaded /\ InitNoRun
InitLive ==
    /\ InitExec /\ recording = FALSE /\ InitMgr /\ InitSink /\ isDebug = FALSE
    /\ InitLoaded /\ InitNoRun
\* line 136: runService has set isDebug to its debugMode argument
InitLog ==
    /\ InitExec /\ recording = TRUE /\ InitMgr /\ InitSink /\ isDebug \in BOOLEAN
    /\ InitLoaded /\ InitNoRun
InitCfg ==
    /\ InitExec /\ recording = TRUE /\ InitMgr /\ InitSink /\ isDebug = FALSE
    /\ InitMain /\ InitNoRun
InitRunService ==
    /\ InitExec /\ recording = TRUE /\ InitMgr /\ InitSink /\ isDebug = FALSE
    /\ InitLoaded /\ InitRun

NextExec ==
    \/ Enter
    \/ Setup
    \/ Started
    \/ LoopTick
    \/ LoopEvent
    \/ LoopControl
    \/ Cleanup
    \/ Final
    \/ DispatcherTake
    \/ Tick
    \/ MonitorEmit
    \/ Deliver

Spec == Init /\ [][NextExec]_vars

\* the administrative commands, one at a time, against the OS service registry
NextMgr ==
    \/ Install
    \/ RemoveBegin
    \/ RemovePoll
    \/ Start
    \/ StopBegin
    \/ StopPoll
    \/ QueryStatus

MgrSpec == Init /\ [][NextMgr]_vars

\* the logging calls of runService and Execute, in any order
NextLog ==
    \/ initializeFileLogger
    \/ CloseLogFile
    \/ OpenEventLog
    \/ logMessage

LogSpec == InitLog /\ [][NextLog]_vars

\* main up to the command it runs, for every configuration file
NextCfg ==
    \/ EnsureDefaultConfig
    \/ Load
    \/ Dispatch

CfgSpec == InitCfg /\ [][NextCfg]_vars

\* runService from its call in main to its return, with the Execute it runs
NextRun ==
    \/ RunInitDirs
    \/ RunInitLogger
    \/ RunOpenEventLog
    \/ RunCall
    \/ ExecArgs
    \/ ExecInitDirs
    \/ ExecInitLogger
    \/ ExecMonitor
    \/ ExecLoop
    \/ ExecStop
    \/ RunReturn

RunSpec == InitRunService /\ [][NextRun]_vars

\* The same program with an unbounded environment and no histories.  Fairness:
\* select picks among its ready cases by a uniform pseudo-random choice, so a
\* case that is ready again and again is eventually picked (strong fairness per
\* case); the goroutine running Execute and the dispatcher's receive from
\* `changes` keep being scheduled (weak fairness).  The environment (ticker,
\* monitor, control requests) is under no obligation.
Fairness ==
    /\ WF_vars(Enter)
    /\ WF_vars(Setup)
    /\ WF_vars(Started)
    /\ SF_vars(LoopTick)
    /\ SF_vars(LoopEvent)
    /\ SF_vars(LoopControl)
    /\ WF_vars(Cleanup)
    /\ WF_vars(Final)
    /\ WF_vars(DispatcherTake)

FairSpec == InitLive /\ [][NextExec]_vars /\ Fairness

\* ---------------------------------------------------------------- properties

IsPrefix(s, t) == Len(s) <= Len(t) /\ \A i \in 1..Len(s) : s[i] = t[i]
Last(s) == s[Len(s)]
IsEcho(x) == x.echo
IsPhase(x) == ~x.echo

\* every status the callback has sent on `changes`, taken or still being sent
Sent == reported \o out

\* the phases the callback itself reported, Interrogate echoes left out
PhasesOf(s) ==
    LET p == SelectSeq(s, IsPhase) IN [i \in 1..Len(p) |-> p[i].st.State]
EchoesOf(s) ==
    LET e == SelectSeq(s, IsEcho) IN [i \in 1..Len(e) |-> e[i].st]

PhaseOrder == <<"StartPending", "Running", "StopPending", "Stopped">>

IsInterrogate(h) == h.src = "ctl" /\ h.cmd = "Interrogate"
IsStopCmd(h) == h.src = "ctl" /\ h.cmd \in {"Stop", "Shutdown"}
IsUnexpected(h) == h.src = "ctl" /\ h.cmd \notin {"Interrogate", "Stop", "Shutdown"}
StopHandled == \E i \in 1..Len(handled) : IsStopCmd(handled[i])
RunningReported ==
    \E i \in 1..Len(reported) : ~reported[i].echo /\ reported[i].st.State = "Running"

\* C1: the phases Execute reports (Interrogate echoes excluded) always form a
\* prefix of StartPending, Running, StopPending, Stopped.
C1_PhasePrefix == IsPrefix(PhasesOf(Sent), PhaseOrder)

\* a complete run, with an Interrogate echo between the phase reports
C1_Witness ==
    /\ pc = "returned"
    /\ PhasesOf(reported) = PhaseOrder
    /\ Len(EchoesOf(reported)) > 0

\* C2: when a setup step fails (directories, file logger, monitor Start) Execute
\* has returned having reported StartPending and nothing else: no Running, no
\* echo, no item taken by the loop, no ticker.
C2_SetupFailureAborts ==
    setupErr # "none" =>
        /\ pc = "returned"
        /\ out = <<>>
        /\ reported = <<[st |-> StartPendingStatus, echo |-> FALSE]>>
        /\ handled = <<>>
        /\ ~tickerOn
        /\ monitorState # "started"

\* monitor Start failed while a control request was already waiting on r
C2_Witness ==
    /\ setupErr = "monitor"
    /\ pc = "returned"
    /\ ctl # <<>>
    /\ Len(log) > 0 /\ Last(log).level = LogError

\* C3: once Running has been reported, the loop has been left, and StopPending
\* sent, exactly when a Stop or Shutdown request has been handled; until then
\* the phases stay StartPending, Running whatever else the loop handles.
C3_ExitIffStop ==
    RunningReported =>
        /\ (pc \in {"cleanup", "final", "returned"}) <=> StopHandled
        /\ (\E i \in 1..Len(PhasesOf(Sent)) : PhasesOf(Sent)[i] = "StopPending") <=> StopHandled
        /\ ~StopHandled => PhasesOf(Sent) = <<"StartPending", "Running">>

\* the loop has handled a tick, an event, an Interrogate and an unknown code
\* and is still waiting
C3_Witness ==
    /\ pc = "loop" /\ out = <<>>
    /\ \E i \in 1..Len(handled) : handled[i].src = "tick"
    /\ \E i \in 1..Len(handled) : handled[i].src = "event"
    /\ \E i \in 1..Len(handled) : IsInterrogate(handled[i])
    /\ \E i \in 1..Len(handled) : IsUnexpected(handled[i])

\* C4: the Interrogate replies sent on `changes` are, one for one and in order,
\* the CurrentStatus values of the Interrogate requests handled; and when an
\* Interrogate is the latest item handled the machine is still in the loop
\* with phases StartPending, Running.
C4_InterrogateEcho ==
    /\ EchoesOf(Sent) =
         LET q == SelectSeq(handled, IsInterrogate) IN [i \in 1..Len(q) |-> q[i].st]
    /\ (handled # <<>> /\ IsInterrogate(Last(handled))) =>
         /\ pc = "loop"
         /\ PhasesOf(Sent) = <<"StartPending", "Running">>

\* two Interrogates carrying different statuses have both been answered
C4_Witness ==
    /\ Len(EchoesOf(reported)) = 2
    /\ EchoesOf(reported)[1] # EchoesOf(reported)[2]
    /\ pc = "loop"

\* C5: the step that handles a control request whose command is none of
\* Interrogate, Stop, Shutdown appends exactly one ERROR record to the log,
\* sends nothing on `changes`, and leaves the loop waiting at its select.
C5_UnexpectedControl ==
    [][(handled' # handled /\ IsUnexpected(Last(handled'))) =>
          /\ log' = Append(log, LogRec(LogError, "unexpectedControl", NoEvent))
          /\ out = <<>> /\ out' = <<>>
          /\ reported' = reported
          /\ pc = "loop" /\ pc' = "loop"]_vars

\* after an unknown code the loop went on to handle a tick, an event and
\* another control request
C5_Witness ==
    /\ Len(handled) = 4
    /\ IsUnexpected(handled[1])
    /\ {handled[i].src : i \in 2..4} = {"tick", "event", "ctl"}
    /\ Len(SelectSeq(log, LAMBDA r : r.level = LogError)) = 1

Occurrences(a) == Cardinality({i \in 1..Len(handled) : handled[i].stamp = a.stamp})
Waiting(a) == Cardinality({i \in 1..Len(evQ) : evQ[i].stamp = a.stamp})

\* C6 as stated: when Execute has returned, every domain event that was put on
\* the event stream has been handled by the loop exactly once.
C6_NoInputDropped ==
    pc = "returned" =>
        \A a \in arrived : a.src = "event" => Occurrences(a) = 1

\* C6 amended: the loop discards nothing: every event put on the stream is
\* either handled exactly once or still waiting on the stream, every item the
\* loop received came from a source and was handled once.  (Events waiting
\* when Stop or Shutdown is handled stay unhandled.)
C6_NothingDiscarded ==
    /\ \A a \in arrived : a.src = "event" => Occurrences(a) + Waiting(a) = 1
    /\ \A i \in 1..Len(handled) :
         /\ [src |-> handled[i].src, stamp |-> handled[i].stamp] \in arrived
         /\ Occurrences(handled[i]) = 1

\* Execute returned after logging one event, with another left on the stream
C6_Witness ==
    /\ pc = "returned"
    /\ evQ # <<>>
    /\ \E i \in 1..Len(handled) : handled[i].src = "event"

\* C7 as stated: items are handled in the order in which they became ready,
\* across the three sources.
C7_ArrivalOrder ==
    \A i, j \in 1..Len(handled) : i < j => handled[i].stamp < handled[j].stamp

LoopRecords ==
    SelectSeq(log, LAMBDA r : r.msg \in {"heartbeat", "fileEvent", "stopRequested",
                                         "unexpectedControl"})

\* C7 amended: each iteration handles exactly one item (one log record or one
\* echo per item received) and items of one source are handled in the order
\* in which they became ready; across sources no order holds.
C7_PerSourceOrder ==
    /\ Len(LoopRecords) + Len(EchoesOf(Sent)) = Len(handled)
    /\ \A i, j \in 1..Len(handled) :
         (i < j /\ handled[i].src = handled[j].src) => handled[i].stamp < handled[j].stamp

\* two events were handled in arrival order although a later item of another
\* source was handled before an earlier one
C7_Witness ==
    /\ Cardinality({i \in 1..Len(handled) : handled[i].src = "event"}) = 2
    /\ \E i, j \in 1..Len(handled) : i < j /\ handled[i].stamp > handled[j].stamp

\* C8: no source is starved.  A Stop or Shutdown waiting on r while the loop
\* runs is eventually handled (the loop is left), and an event waiting on the
\* stream is eventually logged as long as the loop is not left, whatever the
\* ticker, the monitor and the dispatcher keep supplying.
C8_NoStarvation ==
    /\ (pc = "loop" /\ ctl # <<>> /\ ctl[1].cmd \in {"Stop", "Shutdown"}) ~> (pc = "cleanup")
    /\ \A t \in {0, 1} :
         (pc = "loop" /\ evQ # <<>> /\ evTurn = t) ~> (evTurn # t \/ pc # "loop")

\* the Stop was taken while a tick was ready and the event stream was full
C8_Witness ==
    /\ pc = "cleanup"
    /\ tickC # <<>>
    /\ Len(evQ) = EvCap
    /\ evTurn = 1

\* ------------------------------------------------- properties: installService

Called(f) == \E i \in 1..Len(op.calls) : op.calls[i].f = f
InstallDone == op.name = "install"
Unchanged == registry = op.pre.registry /\ evSource = op.pre.evSource

\* C9 as stated: Install on a registered name returns an error without calling
\* create, set-recovery-actions, event-log registration or delete, and leaves
\* the registration as it was.
C9_ExistingUntouchedNoCreate ==
    (InstallDone /\ op.pre.registry # <<>>) =>
        /\ op.err # "none"
        /\ ~Called("CreateService") /\ ~Called("SetRecoveryActions")
        /\ ~Called("InstallAsEventCreate") /\ ~Called("Delete")
        /\ Unchanged

\* C9 amended: Install on a registered name returns an error, never calls
\* set-recovery-actions, event-log registration or delete, and leaves the
\* registration and the event-log source as they were; it calls create only
\* when its own open of the service failed, and that create fails.
C9_ExistingUntouched ==
    (InstallDone /\ op.pre.registry # <<>>) =>
        /\ op.err \in {"exepath", "connect", "exists", "create"}
        /\ ~Called("SetRecoveryActions")
        /\ ~Called("InstallAsEventCreate") /\ ~Called("Delete")
        /\ Unchanged
        /\ Called("CreateService") =>
             /\ Call("OpenService", FALSE) = op.calls[2]
             /\ Call("CreateService", FALSE) = op.calls[3]
        /\ op.err = "exists" <=> Called("OpenService") /\ op.calls[2].ok

\* Install found a registration whose recovery plan differs from the one the
\* loaded configuration asks for, and returned "exists"
C9_Witness ==
    /\ InstallDone
    /\ op.err = "exists"
    /\ registry # <<>>
    /\ registry[1].Recovery = NoRecovery
    /\ cfg.RestartOnFailure

\* C10: whenever Install returns an error, the registration and the event-log
\* source of the name are as they were before the call.
C10_InstallAllOrNothing ==
    (InstallDone /\ op.err # "none") => Unchanged

Made(f, ok) == \E i \in 1..Len(op.calls) : op.calls[i] = Call(f, ok)
Count(f) == Cardinality({i \in 1..Len(op.calls) : op.calls[i].f = f})
Returned(name) == op.name = name /\ mpc = "idle"

C12_RecoveryFailureNotFatal ==
    (InstallDone /\ Made("SetRecoveryActions", FALSE)) =>
        /\ Called("InstallAsEventCreate")
        /\ Made("InstallAsEventCreate", TRUE) =>
             /\ op.err = "none"
             /\ registry # <<>>
             /\ evSource

\* SetRecoveryActions failed and Install returned success
C12_Witness ==
    /\ InstallDone
    /\ Made("SetRecoveryActions", FALSE)
    /\ Made("InstallAsEventCreate", TRUE)
    /\ op.err = "none"
    /\ op.pre.registry = <<>>
    /\ registry # <<>>

\* ------------------------------------------- properties: removeService, etc.

\* C13: once Remove has opened the service, it returns success exactly when
\* Delete and eventlog.Remove both succeeded, whatever Control(Stop) did: Delete
\* is always attempted, eventlog.Remove is attempted after a successful Delete,
\* and a failure of either is the error Remove returns.
C13_RemoveResult ==
    (Returned("remove") /\ Made("OpenService", TRUE)) =>
        /\ op.err = "none" <=> (Made("Delete", TRUE) /\ Made("Remove", TRUE))
        /\ Called("Control") /\ Called("Delete")
        /\ Made("Delete", TRUE) => Called("Remove")
        /\ Made("Delete", FALSE) => op.err = "delete"
        /\ Made("Remove", FALSE) => op.err = "eventlog"

\* Control(Stop) failed and Remove went on to delete the registration and the
\* event-log source
C13_Witness ==
    /\ Returned("remove")
    /\ Made("Control", FALSE)
    /\ op.err = "none"
    /\ op.pre.registry # <<>>
    /\ registry = <<>>
    /\ ~evSource

\* C14: Stop returns success only when the last status it read is Stopped; a
\* failed Control(Stop) or a failed Query makes it return that error; nothing
\* is read after Stopped has been read.
C14_StopOnlyWhenStopped ==
    op.name = "stop" =>
        /\ (mpc = "idle" /\ op.err = "none") =>
             op.seen # <<>> /\ Last(op.seen) = "Stopped"
        /\ Made("Control", FALSE) => mpc = "idle" /\ op.err = "control"
        /\ Made("Query", FALSE) => mpc = "idle" /\ op.err = "query"
        /\ \A i \in 1..Len(op.seen) :
             op.seen[i] = "Stopped" =>
               /\ i = Len(op.seen)
               /\ Last(op.calls).ok
               /\ mpc = "idle"

\* Stop returned success after one Query that read Stopped
C14_Witness ==
    /\ Returned("stop")
    /\ op.err = "none"
    /\ op.seen = <<"StopPending", "Stopped">>

\* C15: when Stop returns success, the statuses it read (the first from
\* Control(Stop), the others from Query) have their first Stopped at the last
\* place, k places after the first, and Stop has slept exactly k times and
\* called Query exactly k times.
C15_SleepsAndQueries ==
    (Returned("stop") /\ op.err = "none") =>
        /\ op.seen # <<>>
        /\ LET k == Len(op.seen) - 1
           IN  /\ op.seen[k + 1] = "Stopped"
               /\ \A i \in 1..k : op.seen[i] # "Stopped"
               /\ op.sleeps = k
               /\ Count("Query") = k

\* statuses StopPending, StopPending, Stopped: two sleeps, two queries
C15_Witness ==
    /\ Returned("stop")
    /\ op.err = "none"
    /\ op.seen = <<"StopPending", "StopPending", "Stopped">>
    /\ op.sleeps = 2
    /\ Count("Query") = 2

\* C16: as long as Control(Stop) succeeded and every Query has succeeded with
\* a status other than Stopped, Stop has not returned, however many times it
\* has slept: it is in its wait and about to sleep and query again.
C16_NoUpperBound ==
    (/\ op.name = "stop"
     /\ Made("Control", TRUE)
     /\ ~Made("Query", FALSE)
     /\ \A i \in 1..Len(op.seen) : op.seen[i] # "Stopped") =>
        /\ mpc = "stopPoll"
        /\ op.err = "pending"
        /\ op.sleeps = Len(op.seen) - 1

\* Stop has slept twice, read StopPending each time, and is still waiting
C16_Witness ==
    /\ op.name = "stop"
    /\ mpc = "stopPoll"
    /\ op.sleeps = 2
    /\ op.seen = <<"StopPending", "StopPending", "StopPending">>

\* C17: when Connect or OpenService fails in Start, Stop, Status or Remove, the
\* command returns that error having made no other call and changed nothing;
\* no command calls Connect, OpenService, CreateService, Start, Control(Stop)
\* or Delete more than once.
C17_FailFastNoRetry ==
    /\ (/\ op.name \in {"start", "stop", "status", "remove"}
        /\ Made("Connect", FALSE) \/ Made("OpenService", FALSE)) =>
          /\ mpc = "idle"
          /\ op.err = IF Made("Connect", FALSE) THEN "connect" ELSE "open"
          /\ \A i \in 1..Len(op.calls) : op.calls[i].f \in {"Connect", "OpenService"}
          /\ Last(op.calls).ok = FALSE
          /\ Unchanged
    /\ \A f \in {"Connect", "OpenService", "CreateService", "Start", "Control", "Delete"} :
         Count(f) <= 1

\* Start on a registered service whose open failed
C17_Witness ==
    /\ Returned("start")
    /\ op.err = "open"
    /\ registry # <<>>
    /\ op.calls = <<Call("Connect", TRUE), Call("OpenService", FALSE)>>

\* ------------------------------------------------------ properties: logging

Added(old, new) == Len(new) - Len(old)
FileConfigured == Writable(fileLogger)
LogCalled == logCalls' # logCalls

C19_OneHandle ==
    /\ Cardinality(openFiles) <= 1
    /\ openFiles # {} => openFiles = {logFile}

\* the log file has been opened a second time: the first handle is closed
C19_Witness ==
    /\ nextFd = 2
    /\ openFiles = {2}
    /\ logFile = 2

\* ------------------------------------------------ properties: running loop

\* the records logged after "service started"
AfterStart ==
    LET i == CHOOSE k \in 1..Len(log) : log[k].msg = "serviceStarted"
    IN  [j \in 1..(Len(log) - i) |-> log[i + j]]
Msgs(s) == [i \in 1..Len(s) |-> s[i].msg]
EventHandled == handled' # handled /\ Last(handled').src = "event"

\* C20: when the loop has received a tick, then a domain event, then Stop, and
\* nothing else, and Execute has returned, the records logged since the
\* service started are heartbeat, file event, stop requested, monitor stopped,
\* service stopped, in this order and all at level INFO; the file-event record
\* carries the FileType and Path of the event as they were on the stream; the
\* last status the dispatcher received is Stopped.
C20_RunningSequence ==
    /\ []((/\ pc = "returned"
           /\ Len(handled) = 3
           /\ handled[1].src = "tick"
           /\ handled[2].src = "event"
           /\ handled[3].src = "ctl" /\ handled[3].cmd = "Stop") =>
             /\ Msgs(AfterStart) = <<"heartbeat", "fileEvent", "stopRequested",
                                     "monitorStopped", "serviceStopped">>
             /\ \A i \in 1..5 : AfterStart[i].level = LogInfo
             /\ Last(reported).st.State = "Stopped"
             /\ monitorState = "stopped")
    /\ [][EventHandled =>
            /\ evQ # <<>>
            /\ Last(handled').stamp = evQ[1].stamp
            /\ Len(log') = Len(log) + 1
            /\ Last(log').msg = "fileEvent"
            /\ Last(log').ev.FileType = evQ[1].ev.FileType
            /\ Last(log').ev.Path = evQ[1].ev.Path]_vars

\* the tick, the event {exe, C:\a.exe} and the Stop arrived one after the
\* other, each after the one before it had been handled
C20_Witness ==
    /\ pc = "returned"
    /\ Len(handled) = 3
    /\ handled[1].src = "tick" /\ handled[1].stamp = 1
    /\ handled[2].src = "event" /\ handled[2].stamp = 2
    /\ handled[3].src = "ctl" /\ handled[3].cmd = "Stop" /\ handled[3].stamp = 3
    /\ clock = 4
    /\ Len(log) >= 5
    /\ log[Len(log) - 3].ev = [FileType |-> "exe", Path |-> "C:\\a.exe"]
    /\ log[Len(log)].msg = "serviceStopped"

\* --------------------------------------------------- properties: shutdown

StoppedSent == \E i \in 1..Len(Sent) : ~Sent[i].echo /\ Sent[i].st.State = "Stopped"
StopPendingTaken ==
    \E i \in 1..Len(reported) : ~reported[i].echo /\ reported[i].st.State = "StopPending"

\* C21 as stated: once Stopped has been sent on `changes`, Execute does nothing
\* more that can be observed: no log record, no status, no monitor call.
C21_StoppedTerminal ==
    [][StoppedSent =>
         /\ log' = log
         /\ Sent' = Sent
         /\ monitorStops' = monitorStops]_vars

\* C21 amended: once Stopped has been sent, Execute sends no further status and
\* makes no monitor call; after the dispatcher has taken Stopped it logs one
\* record, "service stopped" at level INFO, and returns.
C21_FinalRecordAfterStopped ==
    /\ [][StoppedSent =>
            /\ Sent' = Sent
            /\ monitorStops' = monitorStops /\ monitorState' = monitorState
            /\ \/ log' = log
               \/ /\ log' = Append(log, LogRec(LogInfo, "serviceStopped", NoEvent))
                  /\ out = <<>>
                  /\ pc = "final" /\ pc' = "returned"]_vars
    /\ []((pc = "returned" /\ StoppedSent) =>
             /\ Last(log).msg = "serviceStopped"
             /\ Last(reported).st.State = "Stopped")

\* Execute has returned on the shutdown path: Stopped was taken, then the
\* final record was logged
C21_Witness ==
    /\ pc = "returned"
    /\ StoppedSent
    /\ out = <<>>
    /\ Last(log).msg = "serviceStopped"
    /\ Len(SelectSeq(log, LAMBDA r : r.msg = "monitorStopped")) = 1

\* C22: every status Execute constructs carries no accepted controls or exactly
\* Stop and Shutdown; Running carries exactly Stop and Shutdown; no status sent
\* on `changes`, an echoed one included, accepts anything else.
C22_AcceptedControls ==
    \A i \in 1..Len(Sent) :
        /\ Sent[i].st.Accepts \in {{}, {"Stop", "Shutdown"}}
        /\ (~Sent[i].echo /\ Sent[i].st.State = "Running") =>
              Sent[i].st.Accepts = {"Stop", "Shutdown"}
        /\ (~Sent[i].echo /\ Sent[i].st.State # "Running") => Sent[i].st.Accepts = {}

\* all four phases and an Interrogate echo have been sent
C22_Witness ==
    /\ Len(PhasesOf(Sent)) = 4
    /\ \E i \in 1..Len(Sent) : Sent[i].echo /\ Sent[i].st.State = "Running"
    /\ \E i \in 1..Len(Sent) : ~Sent[i].echo /\ Sent[i].st = Status("Running", {"Stop", "Shutdown"})

\* C24: on the shutdown path StopPending is taken by the dispatcher before the
\* monitor is stopped, and the monitor is stopped before Stopped is sent;
\* monitorInstance.Stop() is called at most once, and only on a monitor whose
\* Start succeeded in this invocation.
C24_ShutdownOrder ==
    /\ [](/\ monitorStops <= 1
          /\ monitorStops = 1 =>
               /\ setupErr = "none"
               /\ \E i \in 1..Len(log) : log[i].msg = "monitorStarted"
               /\ StopPendingTaken
               /\ monitorState = "stopped"
          /\ StoppedSent => monitorStops = 1 /\ StopPendingTaken)
    /\ [][monitorStops' # monitorStops =>
            /\ monitorState = "started"
            /\ StopPendingTaken
            /\ ~StoppedSent
            /\ out = <<>>
            /\ Last(log').msg = "monitorStopped"
            /\ Last(Sent').st.State = "Stopped"]_vars

\* the monitor has been stopped and Stopped is being sent
C24_Witness ==
    /\ pc = "final"
    /\ monitorStops = 1
    /\ monitorState = "stopped"
    /\ out # <<>>
    /\ out[1].st.State = "Stopped"
    /\ Last(reported).st.State = "StopPending"

\* ----------------------------------------------- properties: blocking sends

\* the callback takes nothing from its three sources in this step
NothingTaken ==
    /\ ctl # <<>> => ctl' = ctl
    /\ tickC # <<>> => tickC' = tickC
    /\ IsPrefix(evQ, evQ')
    /\ evTurn' = evTurn
StopWaiting == ctl # <<>> /\ ctl[1].cmd \in {"Stop", "Shutdown"}

\* C25 as stated: no handling in the loop waits on a peer: while the loop runs
\* the callback is never blocked in a send.
C25_NeverBlockedInLoop ==
    pc = "loop" => out = <<>>

\* C25 amended: in the loop the callback blocks only in the Interrogate reply;
\* while the dispatcher has not taken the reply the loop takes no tick, no
\* event and no control request; a Stop or Shutdown delivered meanwhile is
\* handled after the dispatcher, which keeps receiving, has taken the reply.
C25_BlocksOnlyOnEcho ==
    /\ []((pc = "loop" /\ out # <<>>) => out[1].echo)
    /\ [][(pc = "loop" /\ out # <<>>) => (pc' = "loop" /\ log' = log /\ NothingTaken)]_vars
    /\ (pc = "loop" /\ out # <<>> /\ StopWaiting) ~> (pc = "cleanup")

\* the Interrogate reply has not been taken and a Stop is waiting on r
C25_Witness ==
    /\ pc = "loop"
    /\ out # <<>>
    /\ out[1].echo
    /\ ctl # <<>>
    /\ ctl[1].cmd = "Stop"

\* C30: once the loop has been left for Stop or Shutdown, the callback gets to
\* send Stopped and then returns, whatever arrives meanwhile; it never goes
\* back to the loop and takes no tick, event or control request any more.
C30_StopCompletes ==
    /\ (pc = "cleanup") ~> (pc = "final" /\ out = <<[st |-> Status("Stopped", {}), echo |-> FALSE]>>)
    /\ (pc = "final") ~> (pc = "returned")
    /\ [][(pc \in {"cleanup", "final", "returned"}) =>
            (pc' \in {"cleanup", "final", "returned"} /\ NothingTaken)]_vars

\* Execute returned while a tick, two events and a control request were waiting
C30_Witness ==
    /\ pc = "returned"
    /\ monitorState = "stopped"
    /\ tickC # <<>>
    /\ Len(evQ) = 2
    /\ ctl # <<>>

\* ------------------------------------- properties: registration and source

\* C28: whenever no command is running, the registration and the event-log
\* source of the name both exist or both do not.
C28_RegistrationAndSource ==
    mpc = "idle" => (registry # <<>> <=> evSource)

\* C29: Remove calls Delete only after Control(Stop) failed, or a status
\* Stopped was read, or a Query failed; as long as Control(Stop) succeeded and
\* every Query succeeded with another state, Remove is in its wait, has slept
\* once per Query, and has deleted nothing.
C29_RemoveWaitsForStop ==
    op.name = "remove" =>
        /\ Called("Delete") =>
             \/ Made("Control", FALSE)
             \/ Made("Query", FALSE)
             \/ op.seen # <<>> /\ Last(op.seen) = "Stopped"
        /\ (/\ Made("Control", TRUE)
            /\ ~Made("Query", FALSE)
            /\ \A i \in 1..Len(op.seen) : op.seen[i] # "Stopped") =>
              /\ mpc = "removePoll"
              /\ ~Called("Delete") /\ ~Called("Remove")
              /\ Unchanged
              /\ op.sleeps = Len(op.seen) - 1
              /\ Count("Query") = op.sleeps

\* Remove has slept and queried twice, read StopPending each time, and the
\* registration is still there
C29_Witness ==
    /\ op.name = "remove"
    /\ mpc = "removePoll"
    /\ op.sleeps = 2
    /\ op.seen = <<"StopPending", "StopPending", "StopPending">>
    /\ registry # <<>>

\* ------------------------------------------------ properties: configuration

\* C23: whenever the configuration file loaded without error, the
\* configuration a command or the service run is given has a non-empty service
\* name and a restart delay that is not negative.
C23_DescriptorValid ==
    handed # <<>> =>
        /\ handed[1].config.ServiceName # ""
        /\ handed[1].config.RestartDelay >= 0

\* ------------------------------------------- properties: runService, Execute

SetupSteps == {"runService", "logger", "x_dirs", "x_logger", "x_monitor"}

\* C26: logFile, the path fields and monitorInstance are each assigned exactly
\* once in a process run and never again.
C26_AssignedOnce ==
    /\ assigned.logFile <= 1
    /\ assigned.paths <= 1
    /\ assigned.monitor <= 1

\* C26 (amended): monitorInstance is assigned at most once; logFile and the
\* path fields are assigned at most twice, by the setup of runService and once
\* more by the setup of Execute, where the path fields get the values they
\* already have; nothing assigns any of them once Execute's setup is over.
C26_AssignedInSetupOnly ==
    /\ [](/\ assigned.logFile <= 2
          /\ assigned.paths <= 2
          /\ assigned.monitor <= 1)
    /\ [][/\ (logFile' # logFile \/ paths' # paths
                \/ monitorInstance' # monitorInstance \/ assigned' # assigned)
             => rpc \in SetupSteps
          /\ (assigned.paths = 1 /\ assigned'.paths = 2)
             => (rpc = "x_dirs" /\ paths' = paths)
          /\ (assigned.logFile = 1 /\ assigned'.logFile = 2) => rpc = "x_logger"]_vars

C26_Witness ==
    /\ rpc = "done"
    /\ assigned = [logFile |-> 2, paths |-> 2, monitor |-> 1]
    /\ logFile = 2
    /\ paths.LogPath = Path(TRUE, <<"C:", "svc", "logs">>)
    /\ loops = MaxLogs

\* C27: every line printed through fileLogger, in a run of runService followed
\* by Execute, is printed while the logger's file is open.
C27_NoWriteAfterClose == lateWrites = <<>>

====
